---- MODULE Spec2Model ----
(***************************************************************************)
(* Visitor-intelligence module of server.js: the ingestion endpoint        *)
(* (POST /api/track), the tracked-link registry and redirect (GET /t/:id), *)
(* the live-session tracker (GET /api/vi/live), site management, the SSE   *)
(* subscriber set and the debounced save timer.                            *)
(*                                                                         *)
(* Conventions of the model                                                *)
(*  - The clock `now` counts units of 5 minutes (300000 ms); ISO timestamp *)
(*    strings are modelled by the clock value they denote.                 *)
(*  - A JavaScript null / undefined object is the empty sequence <<>>, a   *)
(*    present one is the one-element sequence <<value>>.                   *)
(*  - An absent or empty string field is "", an absent number is 0 (both   *)
(*    are falsy in the source, which only tests truthiness).               *)
(*  - genId() draws 6 random bytes; the model draws the next unused        *)
(*    number (visitors, events) or the next unused name (links, sites).    *)
(*  - Maps that the source iterates (visitors) are sequences in insertion  *)
(*    order; maps it only looks up are functions.                          *)
(***************************************************************************)
EXTENDS Integers, Sequences, FiniteSets, TLC

VARIABLES
    now,             \* Date.now(), in units of 5 minutes
    sites,           \* Map siteId -> site                  (server.js:24)
    visitors,        \* Map visitorId -> visitor, in insertion order (:25)
    eventBuffer,     \* array of events                     (:26)
    trackedLinks,    \* Map linkId -> link                  (:27)
    activeSessions,  \* Map visitorId -> live session       (:28)
    geoCache,        \* Map cleanIp -> geo                  (:29)
    sseClients,      \* Map clientId -> response stream     (:30)
    saveTimer,       \* TRUE while the 30 s save timeout is armed (:47)
    inflight,        \* /api/track calls suspended in `await geolocateIP`
    eventSeq,        \* number of events ever pushed (names the next eventId)
    seen,            \* history: fingerprint -> session ids of the completed calls
    pageviews,       \* history: fingerprint -> number of completed pageview calls
    lastIngest,      \* history: visitorId -> time, page and site of the last
                     \* call completed for the visitor since the process started
    streams,         \* clientId -> the messages written to its response stream
    unhandled,       \* number of /api/track handler promises that rejected
    timeouts,        \* the save timeouts: those pending and the name of the
                     \* last one created
    disk,            \* the data directory: file -> <<content>>, or <<>> when
                     \* the file is missing or cannot be parsed
    resp             \* the last HTTP response sent

vars == <<now, sites, visitors, eventBuffer, trackedLinks, activeSessions,
          geoCache, sseClients, saveTimer, inflight, eventSeq, seen, pageviews,
          lastIngest, streams, unhandled, timeouts, disk, resp>>

----------------------------------------------------------------------------
(* Bounds of the model *)

BufferCap == 1       \* capacity of the event buffer in the model

(* Program constants *)

EVENT_BUFFER_MAX == BufferCap   \* 50000 in the source, scaled to the model
FiveMinutes == 1                \* 5 * 60 * 1000 ms, in clock units
NoTimestamp == -1               \* body.timestamp absent
InvalidDate == -2               \* a timestamp string Date cannot parse
NaN == -1000000                 \* the number NaN

\* the clock stops one unit past the live-session window
MaxNow == FiveMinutes + 1

\* /api/track calls that pass validation: enough to overflow the buffer once
MaxIngest == EVENT_BUFFER_MAX + 1

----------------------------------------------------------------------------
(* Small helpers *)

Min(a, b) == IF a < b THEN a ELSE b
Max(a, b) == IF a > b THEN a ELSE b

Includes(seq, x) == \E i \in 1..Len(seq) : seq[i] = x

RECURSIVE SumSeq(_)
SumSeq(seq) == IF seq = <<>> THEN 0 ELSE Head(seq) + SumSeq(Tail(seq))

\* Map.prototype.set
MapSet(m, key, val) == [k \in DOMAIN m \cup {key} |-> IF k = key THEN val ELSE m[k]]

\* the map without the keys in gone (Map.prototype.delete)
MapDelete(m, gone) == [k \in DOMAIN m \ gone |-> m[k]]

EmptyMap == [k \in {} |-> 0]

\* Math.round: the nearest integer, halves towards +Infinity; of num/den, den > 0
RoundDiv(num, den) == (2 * num + den) \div (2 * den)

----------------------------------------------------------------------------
(* scheduleSave and the timer *)

\* mutant: no timeout is set
ScheduleSaveNever(timer) == timer

\* scheduleSave(): the timer after the call; a pending timer is left as it is
ScheduleSave(timer) == IF timer THEN timer ELSE TRUE

NoTimeouts == [pending |-> <<>>, last |-> 0]

\* setTimeout: a new timeout is pending; timeouts are named 1 and 2 in turn,
\* so that a timeout never has the name of the one created before it
SetTimeout(t) ==
    LET name == IF t.last = 1 THEN 2 ELSE 1
    IN [pending |-> Append(t.pending, name), last |-> name]

\* mutant: the pending timeout is cleared and a new one is set
ArmTimeoutAgain(timer, t) == SetTimeout([t EXCEPT !.pending = <<>>])

\* scheduleSave(): the timeouts after the call
ArmTimeout(timer, t) == IF timer THEN t ELSE SetTimeout(t)

\* the pending timeouts once the first of them has fired
Fired(t) == [t EXCEPT !.pending = IF @ = <<>> THEN @ ELSE Tail(@)]

Files == <<"sites", "visitors", "events", "links">>

FileSet == {Files[k] : k \in 1..Len(Files)}

NoFiles == [f \in FileSet |-> <<>>]

Null == -1000001     \* JSON null written for a number

\* JSON.stringify of a number: NaN is written null
JsonNumber(n) == IF n = NaN THEN Null ELSE n

\* JSON.stringify([...visitors])
JsonVisitors(vs) ==
    [i \in 1..Len(vs) |-> [vs[i] EXCEPT !.engagementScore = JsonNumber(@)]]

\* eventBuffer.slice(-EVENT_BUFFER_MAX)
LastEvents(buf) ==
    SubSeq(buf, Max(1, Len(buf) - EVENT_BUFFER_MAX + 1), Len(buf))

\* what the four writes put in the files
FileContents(s, vs, buf, links) ==
    [f \in FileSet |-> CASE f = "sites"    -> s
                        [] f = "visitors" -> JsonVisitors(vs)
                        [] f = "events"   -> LastEvents(buf)
                        [] f = "links"    -> links]

\* mutant: a failed write ends the flush
WriteFilesUntilFailure(d, contents, failed, torn) ==
    [f \in FileSet |->
        LET k == CHOOSE j \in 1..Len(Files) : Files[j] = f
        IN IF \E j \in 1..k : Files[j] \in failed
           THEN d[f] ELSE <<contents[f]>>]

\* the directory after the four writeFileSync calls, each in its own try:
\* a write that throws (failed) leaves the old file, or what is left of a
\* truncated one (torn); the others are written
WriteFiles(d, contents, failed, torn) ==
    [f \in FileSet |-> IF f \in torn THEN <<>>
                       ELSE IF f \in failed THEN d[f]
                       ELSE <<contents[f]>>]

\* the timeout callback where the writes of `failed` throw
FlushWith(failed, torn) ==
    /\ saveTimer
    /\ disk' = WriteFiles(disk, FileContents(sites, visitors, eventBuffer, trackedLinks),
                          failed, torn)
    /\ saveTimer' = FALSE
    /\ timeouts' = Fired(timeouts)
    /\ UNCHANGED <<now, sites, visitors, eventBuffer, trackedLinks, activeSessions,
                   geoCache, sseClients, inflight, eventSeq, seen, pageviews,
                   lastIngest, streams, unhandled, resp>>

\* the collection a file stands for when nothing was read from it
EmptyCollection(f) == IF f \in {"sites", "links"} THEN EmptyMap ELSE <<>>

\* mutant: one try around the four reads, the first failure ends the load
LoadViDataOneTry(d) ==
    [f \in FileSet |->
        LET k == CHOOSE j \in 1..Len(Files) : Files[j] = f
        IN IF \E j \in 1..k : d[Files[j]] = <<>>
           THEN EmptyCollection(f) ELSE d[f][1]]

\* loadViData: each file is read and parsed in its own try; a file that is
\* missing or does not parse leaves its collection as it was created, empty
LoadViData(d) ==
    [f \in FileSet |-> IF d[f] = <<>> THEN EmptyCollection(f) ELSE d[f][1]]

\* the process is started again: the module state is created anew and
\* loadViData fills the four collections from the data directory; live
\* sessions, the geo cache, subscribers, the save timer and the calls that
\* were suspended are gone with the old process
Restart ==
    /\ sites' = LoadViData(disk)["sites"]
    /\ visitors' = LoadViData(disk)["visitors"]
    /\ eventBuffer' = LoadViData(disk)["events"]
    /\ trackedLinks' = LoadViData(disk)["links"]
    /\ activeSessions' = EmptyMap
    /\ geoCache' = EmptyMap
    /\ sseClients' = {}
    /\ saveTimer' = FALSE
    /\ timeouts' = NoTimeouts
    /\ inflight' = <<>>
    /\ lastIngest' = EmptyMap
    /\ UNCHANGED <<now, eventSeq, seen, pageviews, streams, unhandled, disk, resp>>

\* the timeout callback: the four files are written, the timer is cleared;
\* F holds the sets of writes that may fail together, each time leaving the
\* old files or truncated ones
Flush(F) == \E failed \in F : \E torn \in {{}, failed} : FlushWith(failed, torn)

----------------------------------------------------------------------------
(* geolocateIP *)

IsLocalIp(ip) == ip \in {"", "127.0.0.1", "::1", "::ffff:127.0.0.1"}

\* ip.replace("::ffff:", "")
CleanIp(ip) ==
    IF ip = "::ffff:8.8.8.8" THEN "8.8.8.8" ELSE ip

LocalGeo == [city |-> "Local", org |-> "Localhost"]
UnknownGeo == [city |-> "Unknown", org |-> ""]
\* what ip-api.com answers for a clean ip
LookupGeo(cleanIp) == [city |-> "City-" \o cleanIp, org |-> "Org-" \o cleanIp]

\* TRUE when geolocateIP returns without awaiting fetch
GeoIsImmediate(ip, cache) == IsLocalIp(ip) \/ CleanIp(ip) \in DOMAIN cache

ImmediateGeo(ip, cache) ==
    IF IsLocalIp(ip) THEN LocalGeo ELSE cache[CleanIp(ip)]

----------------------------------------------------------------------------
(* UA parsing helpers: a User-Agent is the set of markers it contains *)

ExtractBrowser(ua) ==
    IF "Firefox/" \in ua THEN "Firefox"
    ELSE IF "Edg/" \in ua THEN "Edge"
    ELSE IF "Chrome/" \in ua THEN "Chrome"
    ELSE IF "Safari/" \in ua /\ "Chrome" \notin ua THEN "Safari"
    ELSE "Other"

ExtractOS(ua) ==
    IF "Windows NT 10" \in ua THEN "Windows 10/11"
    ELSE IF "Windows" \in ua THEN "Windows"
    ELSE IF "Mac OS X" \in ua THEN "macOS"
    ELSE IF "Linux" \in ua THEN "Linux"
    ELSE IF "Android" \in ua THEN "Android"
    ELSE IF "iPhone" \in ua \/ "iPad" \in ua THEN "iOS"
    ELSE "Other"

----------------------------------------------------------------------------
(* Visitors *)

\* timestamp || new Date().toISOString()
EventTime(r, t) == IF r.timestamp = NoTimestamp THEN t ELSE r.timestamp

\* for (const v of visitors.values()) if (v.fingerprintHash === fp) ...: the
\* position of the first match in insertion order, 0 when there is none
FindVisitor(vs, fp) ==
    IF \E i \in 1..Len(vs) : vs[i].fingerprintHash = fp
    THEN CHOOSE i \in 1..Len(vs) :
            /\ vs[i].fingerprintHash = fp
            /\ \A j \in 1..(i - 1) : vs[j].fingerprintHash # fp
    ELSE 0

\* the visitor object built for a fingerprint that was not found
NewVisitor(id, r, geo, t) ==
    [ visitorId       |-> id,
      fingerprintHash |-> r.fingerprint,
      identified      |-> FALSE,
      identity        |-> <<>>,
      firstSeen       |-> EventTime(r, t),
      lastSeen        |-> EventTime(r, t),
      totalSessions   |-> 1,
      totalPageviews  |-> 0,
      engagementScore |-> 0,
      geo             |-> [ip |-> r.ip, city |-> geo.city, org |-> geo.org],
      company         |-> geo.org,
      device          |-> [ browser    |-> ExtractBrowser(r.ua),
                            os         |-> ExtractOS(r.ua),
                            deviceType |-> IF r.data.deviceType # ""
                                           THEN r.data.deviceType ELSE "desktop" ],
      siteIds         |-> <<r.siteId>>,
      sessions        |-> <<r.sessionId>> ]

\* the stored record has a sessions array
HasSessions(v) == "sessions" \in DOMAIN v

\* a record of visitors.json that lacks its sessions array
LegacyVisitor ==
    [ visitorId       |-> 1,
      fingerprintHash |-> "F1",
      identified      |-> FALSE,
      identity        |-> <<>>,
      firstSeen       |-> 0,
      lastSeen        |-> 0,
      totalSessions   |-> 1,
      totalPageviews  |-> 1,
      engagementScore |-> 33,
      geo             |-> [ip |-> "8.8.8.8", city |-> "City-8.8.8.8",
                           org |-> "Org-8.8.8.8"],
      company         |-> "Org-8.8.8.8",
      device          |-> [browser |-> "Chrome", os |-> "Windows 10/11",
                           deviceType |-> "desktop"],
      siteIds         |-> <<"S1">> ]

\* mutant: the device is detected again on every call
TouchVisitorRedetect(v, r, t) ==
    [ v EXCEPT !.lastSeen = EventTime(r, t),
               !.device.browser = ExtractBrowser(r.ua),
               !.device.os = ExtractOS(r.ua) ]

\* mutant: the visitor's sites are those of the current call only
TouchVisitorOneSite(v, r, t) ==
    LET newSession == ~Includes(v.sessions, r.sessionId)
    IN [ v EXCEPT
           !.lastSeen = EventTime(r, t),
           !.sessions = IF newSession THEN Append(@, r.sessionId) ELSE @,
           !.totalSessions = IF newSession THEN @ + 1 ELSE @,
           !.siteIds = <<r.siteId>> ]

\* the else branch: the visitor was found
TouchVisitor(v, r, t) ==
    LET newSession == ~Includes(v.sessions, r.sessionId)
    IN [ v EXCEPT
           !.lastSeen = EventTime(r, t),
           !.sessions = IF newSession THEN Append(@, r.sessionId) ELSE @,
           !.totalSessions = IF newSession THEN @ + 1 ELSE @,
           !.siteIds = IF Includes(@, r.siteId) THEN @ ELSE Append(@, r.siteId) ]

\* if (type === "pageview") visitor.totalPageviews++
CountPageview(v, r) ==
    IF r.type = "pageview" THEN [v EXCEPT !.totalPageviews = @ + 1] ELSE v

----------------------------------------------------------------------------
(* Tracked links *)

\* data?.trackingId && (tl = trackedLinks.get(..)) && tl.leadInfo
LinkHit(links, r) ==
    /\ r.data.trackingId # ""
    /\ r.data.trackingId \in DOMAIN links
    /\ links[r.data.trackingId].leadInfo # <<>>

\* mutant: identified assigned the outcome of the check on every event
ApplyTrackedLinkAssign(v, links, r, t) ==
    IF LinkHit(links, r)
    THEN [ v EXCEPT
             !.identified = TRUE,
             !.identity = << [ name         |-> links[r.data.trackingId].leadInfo[1].name,
                               email        |-> links[r.data.trackingId].leadInfo[1].email,
                               identifiedAt |-> t,
                               source       |-> links[r.data.trackingId].messageType ] >> ]
    ELSE [v EXCEPT !.identified = FALSE]

\* the visitor after the tracked-link check of /api/track
ApplyTrackedLink(v, links, r, t) ==
    IF LinkHit(links, r)
    THEN LET tl == links[r.data.trackingId]
         IN [ v EXCEPT
                !.identified = TRUE,
                !.identity = << [ name         |-> tl.leadInfo[1].name,
                                  email        |-> tl.leadInfo[1].email,
                                  identifiedAt |-> t,
                                  source       |-> tl.messageType ] >> ]
    ELSE v

\* mutant: the previous count is dropped
ClickLinkOnce(link, t) == [link EXCEPT !.clicks = 1, !.lastClicked = <<t>>]

\* mutant: a click is counted twice
ClickLinkTwice(link, t) == [link EXCEPT !.clicks = @ + 2, !.lastClicked = <<t>>]

\* mutant: a click uses up the link's lead
ClickLinkConsume(link, t) ==
    [link EXCEPT !.clicks = @ + 1, !.lastClicked = <<t>>, !.leadInfo = <<>>]

\* clicks = (clicks || 0) + 1; lastClicked = now
ClickLink(link, t) == [link EXCEPT !.clicks = @ + 1, !.lastClicked = <<t>>]

\* mutant: the hit is not counted on the link
ClickTrackedLinkNone(links, r, t) == links

\* the registry after the tracked-link check of /api/track
ClickTrackedLink(links, r, t) ==
    IF LinkHit(links, r)
    THEN [links EXCEPT ![r.data.trackingId] = ClickLink(@, t)]
    ELSE links

----------------------------------------------------------------------------
(* Engagement score *)

\* /contact|pricing|demo|services|consultation/i.test(path), on the model's paths
IsHighIntentPath(path) == path \in {"/pricing", "/Contact-Us", "/demo"}

\* the visitor's exit events that carry a truthy scrollDepth
ScrollEvents(events, id) ==
    SelectSeq(events, LAMBDA e : /\ e.visitorId = id
                                 /\ e.type = "exit"
                                 /\ e.data.scrollDepth # 0)

\* computeEngagement(visitor) at time t over the event buffer. The terms are
\* kept as exact fractions over the common denominator den; with the clock
\* in units of 5 minutes, hoursSince = (t - lastSeen) / 12.
ComputeEngagement(v, events, t) ==
    IF v.lastSeen = InvalidDate
    THEN NaN
    ELSE LET S       == Max(1, v.totalSessions)
             exits   == ScrollEvents(events, v.visitorId)
             n       == Len(exits)
             n1      == Max(1, n)
             sum     == SumSeq([i \in 1..n |-> exits[i].data.scrollDepth])
             den     == 240 * S * n1
             recency == Max(0, 25 * den - (t - v.lastSeen) * (den \div 24))
             freq    == Min(25, v.totalSessions * 5) * den
             depth   == Min(15 * den, 3 * v.totalPageviews * (den \div S))
             scroll  == IF n > 0 THEN Min(10 * den, sum * (den \div (10 * n1)))
                        ELSE 0
             intent  == IF \E i \in 1..Len(events) :
                               /\ events[i].visitorId = v.visitorId
                               /\ IsHighIntentPath(events[i].data.path)
                        THEN 15 * den ELSE 0
             ident   == IF v.identified THEN 10 * den ELSE 0
             score   == recency + freq + depth + scroll + intent + ident
         IN RoundDiv(Min(100 * den, score), den)

----------------------------------------------------------------------------
(* Event buffer *)

NewEvent(id, r, visitorId, t) ==
    [ eventId   |-> id,
      siteId    |-> r.siteId,
      visitorId |-> visitorId,
      sessionId |-> r.sessionId,
      type      |-> r.type,
      timestamp |-> EventTime(r, t),
      data      |-> r.data ]

\* mutant: the overflow is cut from the wrong end
StoreEventKeepOldest(buf, e) ==
    LET b == Append(buf, e)
    IN IF Len(b) > EVENT_BUFFER_MAX THEN SubSeq(b, 1, EVENT_BUFFER_MAX) ELSE b

\* eventBuffer.push(event); splice(0, length - EVENT_BUFFER_MAX) when over
StoreEvent(buf, e) ==
    LET b == Append(buf, e)
    IN IF Len(b) > EVENT_BUFFER_MAX
       THEN SubSeq(b, Len(b) - EVENT_BUFFER_MAX + 1, Len(b))
       ELSE b

----------------------------------------------------------------------------
(* broadcastSSE *)

\* mutant: the loop ends at the first write that throws
WrittenUntilFailure(clients, failed) == IF failed = {} THEN clients ELSE {}

\* the clients whose res.write(msg) returned, failed being those where it threw
Written(clients, failed) == clients \ failed

\* the subscriber map after the loop: a client whose write threw is deleted
AfterBroadcast(clients, failed) == clients \ failed

\* the response streams after the loop
WriteAll(strs, clients, failed, msg) ==
    [c \in DOMAIN strs |-> IF c \in Written(clients, failed)
                           THEN Append(strs[c], msg) ELSE strs[c]]

----------------------------------------------------------------------------
(* URLs: a URL text is the record of the parts between its delimiters,     *)
(* scheme://host path ?query #hash, the query being the list of its        *)
(* name=value pairs; the empty text has every part empty                   *)

Url(scheme, host, path, query, hash) ==
    [scheme |-> scheme, host |-> host, path |-> path, query |-> query, hash |-> hash]

NoUrl == Url("", "", "", <<>>, "")

\* new URL(text) succeeds: the text is absolute (there is no base) and names a host
IsParsableUrl(url) == url.scheme # "" /\ url.host # ""

\* new URL(text): an empty path of an http(s) URL is "/"
ParseUrl(url) == [url EXCEPT !.path = IF @ = "" THEN "/" ELSE @]

\* the positions of the pairs with a name
PairsNamed(query, name) == {k \in 1..Len(query) : query[k][1] = name}

\* mutant: url.searchParams.append
SearchParamsAppend(query, name, value) == Append(query, <<name, value>>)

\* url.searchParams.set(name, value): the first pair with the name takes the
\* value and the other pairs with the name are removed; appended when absent
SearchParamsSet(query, name, value) ==
    IF PairsNamed(query, name) = {}
    THEN Append(query, <<name, value>>)
    ELSE LET first == CHOOSE k \in PairsNamed(query, name) :
                         \A j \in PairsNamed(query, name) : k <= j
             keep(k) == k = first \/ query[k][1] # name
             RECURSIVE Walk(_)
             Walk(k) == IF k > Len(query) THEN <<>>
                        ELSE (IF k = first THEN << <<name, value>> >>
                              ELSE IF keep(k) THEN <<query[k]>> ELSE <<>>)
                             \o Walk(k + 1)
         IN Walk(1)

\* the URL the redirect names: url.toString() after searchParams.set
RedirectTarget(link) ==
    [ParseUrl(link.originalUrl) EXCEPT !.query = SearchParamsSet(@, "_bvt", link.linkId)]

----------------------------------------------------------------------------
(* Responses *)

Response(op, status) ==
    [op |-> op, status |-> status, active |-> {}, location |-> NoUrl,
     activeNow |-> 0, visitorsByDay |-> <<>>]

----------------------------------------------------------------------------
(* POST /api/track *)

\* mutant: the type is not required
MalformedNoType(r) == r.siteId = "" \/ r.fingerprint = ""

\* !siteId || !fp || !type
Malformed(r) == r.siteId = "" \/ r.fingerprint = "" \/ r.type = ""


\* mutant: the live session carries the event's own timestamp
LiveSessionOfEvent(t, eventTime, r) ==
    [timestamp |-> eventTime, page |-> r.data.path, siteId |-> r.siteId]

\* { timestamp: Date.now(), page: data?.path || data?.url || "", siteId }
LiveSession(t, eventTime, r) ==
    [timestamp |-> t, page |-> r.data.path, siteId |-> r.siteId]

\* everything the handler does once `visitor` is bound: vs is the visitor map
\* with the visitor found or inserted, i its position
Complete(r, vs, i) ==
    LET v1    == CountPageview(vs[i], r)
        v2    == ApplyTrackedLink(v1, trackedLinks, r, now)
        v3    == [v2 EXCEPT !.engagementScore = ComputeEngagement(v2, eventBuffer, now)]
        event == NewEvent(eventSeq + 1, r, v3.visitorId, now)
    IN /\ visitors' = [vs EXCEPT ![i] = v3]
       /\ trackedLinks' = ClickTrackedLink(trackedLinks, r, now)
       /\ eventBuffer' = StoreEvent(eventBuffer, event)
       /\ eventSeq' = eventSeq + 1
       /\ seen' = MapSet(seen, r.fingerprint,
                         (IF r.fingerprint \in DOMAIN seen THEN seen[r.fingerprint]
                          ELSE {}) \cup {r.sessionId})
       /\ pageviews' = MapSet(pageviews, r.fingerprint,
                              (IF r.fingerprint \in DOMAIN pageviews
                               THEN pageviews[r.fingerprint] ELSE 0)
                              + (IF r.type = "pageview" THEN 1 ELSE 0))
       /\ activeSessions' =
             MapSet(activeSessions, v3.visitorId,
                    LiveSession(now, EventTime(r, now), r))
       /\ lastIngest' =
             MapSet(lastIngest, v3.visitorId,
                    [timestamp |-> now, page |-> r.data.path, siteId |-> r.siteId])
       \* broadcastSSE: any of the writes may throw
       /\ \E failed \in SUBSET sseClients :
             /\ sseClients' = AfterBroadcast(sseClients, failed)
             /\ streams' = WriteAll(streams, sseClients, failed, event.eventId)
       /\ saveTimer' = ScheduleSave(saveTimer)
       /\ timeouts' = ArmTimeout(saveTimer, timeouts)

\* a request body that fails the required-field check: acknowledged, dropped
TrackMalformed(r) ==
    /\ Malformed(r)
    /\ resp' = Response("track", 204)
    /\ UNCHANGED <<disk, now, sites, visitors, eventBuffer, trackedLinks,
                   activeSessions, geoCache, sseClients, saveTimer, timeouts,
                   inflight, eventSeq, seen, pageviews, lastIngest, streams,
                   unhandled>>

\* mutant: the lookup is awaited for a known fingerprint too
TrackKnownAwaits(r) ==
    /\ ~Malformed(r)
    /\ eventSeq + Len(inflight) + unhandled < MaxIngest
    /\ FindVisitor(visitors, r.fingerprint) # 0
    /\ inflight' = Append(inflight, r)
    /\ resp' = Response("track", 204)
    /\ UNCHANGED <<disk, now, sites, visitors, eventBuffer, trackedLinks,
                   activeSessions, geoCache, sseClients, saveTimer, timeouts,
                   eventSeq, seen, pageviews, lastIngest, streams, unhandled>>

\* the fingerprint is known: the handler runs to its end without awaiting
TrackKnown(r) ==
    /\ ~Malformed(r)
    /\ eventSeq + Len(inflight) + unhandled < MaxIngest
    /\ FindVisitor(visitors, r.fingerprint) # 0
    /\ HasSessions(visitors[FindVisitor(visitors, r.fingerprint)])
    /\ LET i == FindVisitor(visitors, r.fingerprint)
       IN Complete(r, [visitors EXCEPT ![i] = TouchVisitor(@, r, now)], i)
    /\ resp' = Response("track", 204)
    /\ UNCHANGED <<disk, now, sites, geoCache, inflight, unhandled>>

\* the fingerprint is known and the stored record has no sessions array:
\* visitor.sessions.includes throws a TypeError after lastSeen was assigned;
\* nothing catches it and the handler's promise rejects
TrackKnownThrows(r) ==
    /\ ~Malformed(r)
    /\ eventSeq + Len(inflight) + unhandled < MaxIngest
    /\ FindVisitor(visitors, r.fingerprint) # 0
    /\ ~HasSessions(visitors[FindVisitor(visitors, r.fingerprint)])
    /\ visitors' = [visitors EXCEPT ![FindVisitor(visitors, r.fingerprint)].lastSeen =
                                       EventTime(r, now)]
    /\ unhandled' = unhandled + 1
    /\ resp' = Response("track", 204)
    /\ UNCHANGED <<disk, now, sites, eventBuffer, trackedLinks, activeSessions,
                   geoCache, sseClients, saveTimer, timeouts, inflight, eventSeq,
                   seen, pageviews, lastIngest, streams>>

\* the fingerprint is unknown and geolocateIP answers without fetch (a local
\* address or a cached one): the await resumes before any other request
TrackNewImmediate(r) ==
    /\ ~Malformed(r)
    /\ eventSeq + Len(inflight) + unhandled < MaxIngest
    /\ FindVisitor(visitors, r.fingerprint) = 0
    /\ GeoIsImmediate(r.ip, geoCache)
    /\ LET id == Len(visitors) + 1
           v  == NewVisitor(id, r, ImmediateGeo(r.ip, geoCache), now)
       IN Complete(r, Append(visitors, v), id)
    /\ resp' = Response("track", 204)
    /\ UNCHANGED <<disk, now, sites, geoCache, inflight, unhandled>>

\* mutant: the acknowledgment waits for the lookup
TrackNewSuspendSilent(r) ==
    /\ ~Malformed(r)
    /\ eventSeq + Len(inflight) + unhandled < MaxIngest
    /\ FindVisitor(visitors, r.fingerprint) = 0
    /\ ~GeoIsImmediate(r.ip, geoCache)
    /\ inflight' = Append(inflight, r)
    /\ UNCHANGED <<disk, now, sites, visitors, eventBuffer, trackedLinks,
                   activeSessions, geoCache, sseClients, saveTimer, timeouts,
                   eventSeq, seen, pageviews, lastIngest, streams, unhandled, resp>>

\* the fingerprint is unknown and geolocateIP awaits fetch: the call is
\* suspended and other requests are served meanwhile
TrackNewSuspend(r) ==
    /\ ~Malformed(r)
    /\ eventSeq + Len(inflight) + unhandled < MaxIngest
    /\ FindVisitor(visitors, r.fingerprint) = 0
    /\ ~GeoIsImmediate(r.ip, geoCache)
    /\ inflight' = Append(inflight, r)
    /\ resp' = Response("track", 204)
    /\ UNCHANGED <<disk, now, sites, visitors, eventBuffer, trackedLinks,
                   activeSessions, geoCache, sseClients, saveTimer, timeouts,
                   eventSeq, seen, pageviews, lastIngest, streams, unhandled>>

RemoveAt(seq, k) == SubSeq(seq, 1, k - 1) \o SubSeq(seq, k + 1, Len(seq))

\* fetch settles for the k-th suspended call: ok with the answer (cached), or
\* not ok with the fallback; the visitor is then built and inserted
TrackResume(k, ok) ==
    /\ k \in 1..Len(inflight)
    /\ LET r   == inflight[k]
           geo == IF ok THEN LookupGeo(CleanIp(r.ip)) ELSE UnknownGeo
           id  == Len(visitors) + 1
           v   == NewVisitor(id, r, geo, now)
       IN /\ geoCache' = IF ok THEN MapSet(geoCache, CleanIp(r.ip), geo)
                                ELSE geoCache
          /\ Complete(r, Append(visitors, v), id)
    /\ inflight' = RemoveAt(inflight, k)
    /\ UNCHANGED <<disk, now, sites, unhandled, resp>>

----------------------------------------------------------------------------
(* Tracked links: POST /api/vi/tracked-links and GET /t/:linkId *)

LinkIds == <<"tl1", "tl2">>

CreateLink(siteId, originalUrl, lead, messageType) ==
    IF originalUrl = NoUrl \/ lead = <<>>
    THEN /\ resp' = Response("create-link", 400)
         /\ UNCHANGED <<disk, now, sites, visitors, eventBuffer, trackedLinks,
                        activeSessions, geoCache, sseClients, saveTimer, timeouts,
                        inflight, eventSeq, seen, pageviews, lastIngest, streams,
                        unhandled>>
    ELSE /\ Cardinality(DOMAIN trackedLinks) < Len(LinkIds)
         /\ LET linkId == LinkIds[Cardinality(DOMAIN trackedLinks) + 1]
                link   == [ linkId      |-> linkId,
                            siteId      |-> siteId,
                            originalUrl |-> originalUrl,
                            leadInfo    |-> << [ name  |-> lead[1].name,
                                                 email |-> lead[1].email ] >>,
                            messageType |-> IF messageType = "" THEN "email"
                                            ELSE messageType,
                            clicks      |-> 0,
                            lastClicked |-> <<>> ]
            IN trackedLinks' = MapSet(trackedLinks, linkId, link)
         /\ saveTimer' = ScheduleSave(saveTimer)
         /\ timeouts' = ArmTimeout(saveTimer, timeouts)
         /\ resp' = Response("create-link", 200)
         /\ UNCHANGED <<disk, now, sites, visitors, eventBuffer, activeSessions,
                        geoCache, sseClients, inflight, eventSeq, seen, pageviews,
                        lastIngest, streams, unhandled>>

\* mutant: the save is scheduled before the link is looked up
ResolveLinkEager(linkId) ==
    /\ saveTimer' = ScheduleSave(saveTimer)
    /\ timeouts' = ArmTimeout(saveTimer, timeouts)
    /\ IF linkId \notin DOMAIN trackedLinks
       THEN /\ resp' = Response("redirect", 404)
            /\ UNCHANGED trackedLinks
       ELSE /\ trackedLinks[linkId].clicks < MaxIngest
            /\ trackedLinks' = [trackedLinks EXCEPT ![linkId] = ClickLink(@, now)]
            /\ resp' = Response("redirect", 302)
    /\ UNCHANGED <<disk, now, sites, visitors, eventBuffer, activeSessions,
                   geoCache, sseClients, inflight, eventSeq, seen, pageviews,
                   lastIngest, streams, unhandled>>

ResolveLink(linkId) ==
    IF linkId \notin DOMAIN trackedLinks
    THEN /\ resp' = Response("redirect", 404)
         /\ UNCHANGED <<disk, now, sites, visitors, eventBuffer, trackedLinks,
                        activeSessions, geoCache, sseClients, saveTimer, timeouts,
                        inflight, eventSeq, seen, pageviews, lastIngest, streams,
                        unhandled>>
    ELSE /\ trackedLinks[linkId].clicks < MaxIngest
         /\ trackedLinks' = [trackedLinks EXCEPT ![linkId] = ClickLink(@, now)]
         /\ saveTimer' = ScheduleSave(saveTimer)
         /\ timeouts' = ArmTimeout(saveTimer, timeouts)
         \* new URL throws on a text it cannot parse: Express answers 500
         /\ resp' = IF IsParsableUrl(trackedLinks[linkId].originalUrl)
                    THEN [Response("redirect", 302) EXCEPT
                             !.location = RedirectTarget(trackedLinks[linkId])]
                    ELSE Response("redirect", 500)
         /\ UNCHANGED <<disk, now, sites, visitors, eventBuffer, activeSessions,
                        geoCache, sseClients, inflight, eventSeq, seen, pageviews,
                        lastIngest, streams, unhandled>>

----------------------------------------------------------------------------
(* Live sessions: GET /api/vi/live *)

\* mutant: the window is one clock unit too long
ExpiredLate(session, t) == session.timestamp < t - FiveMinutes - 1

\* session.timestamp < fiveMinAgo
Expired(session, t) == session.timestamp < t - FiveMinutes

\* the activeVisitors array of the response, as a set
ActiveVisitors(sessions, vs, siteFilter, t) ==
    { [ visitorId   |-> id,
        currentPage |-> sessions[id].page,
        identified  |-> vs[id].identified,
        identity    |-> vs[id].identity,
        activeFor   |-> t - sessions[id].timestamp ] :
      id \in { k \in DOMAIN sessions :
                 /\ ~Expired(sessions[k], t)
                 /\ siteFilter = "" \/ sessions[k].siteId = siteFilter
                 /\ k \in 1..Len(vs) } }

\* mutant: an entry exactly five minutes old is not counted
DashboardActiveNowStrict(sessions, siteFilter, t) ==
    Cardinality({ k \in DOMAIN sessions :
                    /\ sessions[k].timestamp > t - FiveMinutes
                    /\ siteFilter = "" \/ sessions[k].siteId = siteFilter })

\* the activeNow figure of GET /api/vi/dashboard
DashboardActiveNow(sessions, siteFilter, t) ==
    Cardinality({ k \in DOMAIN sessions :
                    /\ sessions[k].timestamp >= t - FiveMinutes
                    /\ siteFilter = "" \/ sessions[k].siteId = siteFilter })

\* mutant: the filter is applied before the expiry check
ListActiveFilterFirst(siteFilter) ==
    /\ activeSessions' =
          MapDelete(activeSessions,
                    {k \in DOMAIN activeSessions :
                       /\ siteFilter = "" \/ activeSessions[k].siteId = siteFilter
                       /\ Expired(activeSessions[k], now)})
    /\ resp' = [ Response("live", 200) EXCEPT
                   !.active = ActiveVisitors(activeSessions, visitors, siteFilter, now) ]
    /\ UNCHANGED <<disk, now, sites, visitors, eventBuffer, trackedLinks, geoCache,
                   sseClients, saveTimer, timeouts, inflight, eventSeq, seen,
                   pageviews, lastIngest, streams, unhandled>>

ListActive(siteFilter) ==
    /\ activeSessions' =
          MapDelete(activeSessions,
                    {k \in DOMAIN activeSessions : Expired(activeSessions[k], now)})
    /\ resp' = [ Response("live", 200) EXCEPT
                   !.active = ActiveVisitors(activeSessions, visitors, siteFilter, now) ]
    /\ UNCHANGED <<disk, now, sites, visitors, eventBuffer, trackedLinks, geoCache,
                   sseClients, saveTimer, timeouts, inflight, eventSeq, seen,
                   pageviews, lastIngest, streams, unhandled>>

----------------------------------------------------------------------------
(* Dashboard: GET /api/vi/dashboard *)

\* one day on the model's clock
Day == 24 * 12 * FiveMinutes

\* the length of the daily series: slice(-30)
SeriesLength == 30

\* timestamp.split("T")[0]: the calendar date of an ISO timestamp, counted
\* in days; a text that is not a timestamp is its own key
DateOf(ts) == IF ts = InvalidDate THEN InvalidDate ELSE ts \div Day

\* a.localeCompare(b) < 0 on the keys: dates in calendar order, digits
\* before letters
DateBefore(a, b) ==
    IF a = InvalidDate THEN FALSE
    ELSE IF b = InvalidDate THEN TRUE
    ELSE a < b

RECURSIVE SortDates(_)
SortDates(S) ==
    IF S = {} THEN <<>>
    ELSE LET first == CHOOSE d \in S : \A e \in S \ {d} : DateBefore(d, e)
         IN <<first>> \o SortDates(S \ {first})

\* the cutoff of a period: 0 for "all", which `if (cutoff)` takes as none
Cutoff(period, t) ==
    CASE period = "today" -> (t \div Day) * Day
      [] period = "7d"    -> t - 7 * Day
      [] period = "30d"   -> t - 30 * Day
      [] OTHER            -> 0

\* the events the dashboard looks at: those of the site, not older than
\* the cutoff (an unparsable timestamp compares false with any cutoff)
DashboardEvents(events, siteFilter, cutoff) ==
    SelectSeq(events, LAMBDA e :
        /\ siteFilter = "" \/ e.siteId = siteFilter
        /\ cutoff = 0 \/ (e.timestamp # InvalidDate /\ e.timestamp >= cutoff))

\* the events the daily series is built from
SeriesEvents(events) == SelectSeq(events, LAMBDA e : e.type = "pageview")

\* visitorsByDay: per date of a pageview the number of distinct visitors,
\* in date order, the last SeriesLength dates
VisitorsByDay(events, siteFilter, cutoff) ==
    LET pvs    == SeriesEvents(DashboardEvents(events, siteFilter, cutoff))
        days   == { DateOf(pvs[k].timestamp) : k \in 1..Len(pvs) }
        sorted == SortDates(days)
        last   == SubSeq(sorted, Max(1, Len(sorted) - SeriesLength + 1), Len(sorted))
    IN [ k \in 1..Len(last) |->
           [ date  |-> last[k],
             count |-> Cardinality({ pvs[j].visitorId :
                          j \in { i \in 1..Len(pvs) :
                                    DateOf(pvs[i].timestamp) = last[k] } }) ] ]

Dashboard(siteFilter, period) ==
    /\ resp' = [ Response("dashboard", 200) EXCEPT
                   !.activeNow = DashboardActiveNow(activeSessions, siteFilter, now),
                   !.visitorsByDay = VisitorsByDay(eventBuffer, siteFilter,
                                                   Cutoff(period, now)) ]
    /\ UNCHANGED <<disk, now, sites, visitors, eventBuffer, trackedLinks,
                   activeSessions, geoCache, sseClients, saveTimer, timeouts,
                   inflight, eventSeq, seen, pageviews, lastIngest, streams,
                   unhandled>>

----------------------------------------------------------------------------
(* Sites: POST /api/vi/sites and DELETE /api/vi/sites/:siteId *)

SiteIds == <<"S1">>

CreateSite(name, domain) ==
    IF name = "" \/ domain = ""
    THEN /\ resp' = Response("create-site", 400)
         /\ UNCHANGED <<disk, now, sites, visitors, eventBuffer, trackedLinks,
                        activeSessions, geoCache, sseClients, saveTimer, timeouts,
                        inflight, eventSeq, seen, pageviews, lastIngest, streams,
                        unhandled>>
    ELSE /\ \E k \in 1..Len(SiteIds) : SiteIds[k] \notin DOMAIN sites
         /\ LET k == CHOOSE k \in 1..Len(SiteIds) :
                        /\ SiteIds[k] \notin DOMAIN sites
                        /\ \A j \in 1..(k - 1) : SiteIds[j] \in DOMAIN sites
            IN sites' = MapSet(sites, SiteIds[k],
                               [siteId |-> SiteIds[k], name |-> name,
                                domain |-> domain])
         /\ saveTimer' = ScheduleSave(saveTimer)
         /\ timeouts' = ArmTimeout(saveTimer, timeouts)
         /\ resp' = Response("create-site", 200)
         /\ UNCHANGED <<disk, now, visitors, eventBuffer, trackedLinks,
                        activeSessions, geoCache, sseClients, inflight, eventSeq,
                        seen, pageviews, lastIngest, streams, unhandled>>

\* mutant: the site's visitors are deleted with it
DeleteSiteForgetVisitors(siteId) ==
    /\ sites' = MapDelete(sites, {siteId})
    /\ visitors' = SelectSeq(visitors, LAMBDA v : ~Includes(v.siteIds, siteId))
    /\ saveTimer' = ScheduleSave(saveTimer)
    /\ timeouts' = ArmTimeout(saveTimer, timeouts)
    /\ resp' = Response("delete-site", 200)
    /\ UNCHANGED <<disk, now, eventBuffer, trackedLinks, activeSessions, geoCache,
                   sseClients, inflight, eventSeq, seen, pageviews, lastIngest,
                   streams, unhandled>>

\* mutant: the site's live sessions end with it
DeleteSiteCascade(siteId) ==
    /\ sites' = MapDelete(sites, {siteId})
    /\ activeSessions' =
          MapDelete(activeSessions,
                    {k \in DOMAIN activeSessions : activeSessions[k].siteId = siteId})
    /\ saveTimer' = ScheduleSave(saveTimer)
    /\ timeouts' = ArmTimeout(saveTimer, timeouts)
    /\ resp' = Response("delete-site", 200)
    /\ UNCHANGED <<disk, now, visitors, eventBuffer, trackedLinks, geoCache,
                   sseClients, inflight, eventSeq, seen, pageviews, lastIngest,
                   streams, unhandled>>

\* mutant: the site's events are deleted with it
DeleteSitePurge(siteId) ==
    /\ sites' = MapDelete(sites, {siteId})
    /\ eventBuffer' = SelectSeq(eventBuffer, LAMBDA e : e.siteId # siteId)
    /\ saveTimer' = ScheduleSave(saveTimer)
    /\ timeouts' = ArmTimeout(saveTimer, timeouts)
    /\ resp' = Response("delete-site", 200)
    /\ UNCHANGED <<disk, now, visitors, trackedLinks, activeSessions, geoCache,
                   sseClients, inflight, eventSeq, seen, pageviews, lastIngest,
                   streams, unhandled>>

DeleteSite(siteId) ==
    /\ sites' = MapDelete(sites, {siteId})
    /\ saveTimer' = ScheduleSave(saveTimer)
    /\ timeouts' = ArmTimeout(saveTimer, timeouts)
    /\ resp' = Response("delete-site", 200)
    /\ UNCHANGED <<disk, now, visitors, eventBuffer, trackedLinks, activeSessions,
                   geoCache, sseClients, inflight, eventSeq, seen, pageviews,
                   lastIngest, streams, unhandled>>

----------------------------------------------------------------------------
(* SSE stream: GET /api/vi/stream *)

\* mutant: the subscriber is registered and nothing is written to it
SubscribeSilent(clientId) ==
    /\ clientId \notin sseClients
    /\ streams' = MapSet(streams, clientId, <<>>)
    /\ sseClients' = sseClients \cup {clientId}
    /\ resp' = Response("stream", 200)
    /\ UNCHANGED <<disk, now, sites, visitors, eventBuffer, trackedLinks,
                   activeSessions, geoCache, saveTimer, timeouts, inflight,
                   eventSeq, seen, pageviews, lastIngest, unhandled>>

Subscribe(clientId) ==
    /\ clientId \notin sseClients
    \* res.write of the connected message, then sseClients.set
    /\ streams' = MapSet(streams, clientId, <<"connected">>)
    /\ sseClients' = sseClients \cup {clientId}
    /\ resp' = Response("stream", 200)
    /\ UNCHANGED <<disk, now, sites, visitors, eventBuffer, trackedLinks,
                   activeSessions, geoCache, saveTimer, timeouts, inflight,
                   eventSeq, seen, pageviews, lastIngest, unhandled>>

\* req.on("close")
StreamClosed(clientId) ==
    /\ clientId \in sseClients
    /\ sseClients' = sseClients \ {clientId}
    /\ UNCHANGED <<disk, now, sites, visitors, eventBuffer, trackedLinks,
                   activeSessions, geoCache, saveTimer, timeouts, inflight,
                   eventSeq, seen, pageviews, lastIngest, streams, unhandled, resp>>

----------------------------------------------------------------------------
(* Time *)

Tick ==
    /\ now < MaxNow
    /\ now' = now + 1
    /\ UNCHANGED <<disk, sites, visitors, eventBuffer, trackedLinks, activeSessions,
                   geoCache, sseClients, saveTimer, timeouts, inflight, eventSeq,
                   seen, pageviews, lastIngest, streams, unhandled, resp>>

----------------------------------------------------------------------------
(* The requests the environment sends *)

Data(path, scrollDepth, trackingId) ==
    [path |-> path, scrollDepth |-> scrollDepth, trackingId |-> trackingId,
     deviceType |-> ""]

Beacon(siteId, fp, sessionId, type, timestamp, data, ip) ==
    [ siteId |-> siteId, fingerprint |-> fp, sessionId |-> sessionId,
      type |-> type, timestamp |-> timestamp, data |-> data, ip |-> ip,
      ua |-> {"Chrome/", "Safari/", "Windows NT 10"} ]

Plain == Beacon("S1", "F1", "s1", "pageview", NoTimestamp, Data("/", 0, ""), "8.8.8.8")

\* the plain pageview beacon and its variations in one field
Beacons ==
    {Plain}
    \cup { [Plain EXCEPT !.siteId = x] : x \in {"S2", ""} }
    \cup { [Plain EXCEPT !.fingerprint = x] : x \in {"F2"} }
    \cup { [Plain EXCEPT !.sessionId = x] : x \in {"s2"} }
    \cup { [Plain EXCEPT !.type = x] : x \in {"click"} }
    \* a timestamp at the start of the run, one 200 hours ahead, one unparsable
    \cup { [Plain EXCEPT !.timestamp = x] : x \in {0, 2400, InvalidDate} }
    \cup { [Plain EXCEPT !.data.path = x] : x \in {"/pricing"} }
    \cup { [Plain EXCEPT !.type = "exit", !.data.scrollDepth = x] : x \in {80, -2000} }
    \cup { [Plain EXCEPT !.ip = x] : x \in {"127.0.0.1"} }

\* the beacons of a page reached with or without a tracked link's token,
\* sent from the server's own host
LinkBeacons ==
    { [Plain EXCEPT !.ip = "127.0.0.1", !.data.trackingId = x] :
        x \in {"", "tl1", "tl2", "tl9"} }

\* pageviews of two visitors on two sites
LiveBeacons ==
    { [Plain EXCEPT !.fingerprint = f, !.siteId = x] :
        f \in {"F1", "F2"}, x \in {"S1", "S2"} }
    \cup { [Plain EXCEPT !.fingerprint = ""], [Plain EXCEPT !.siteId = ""],
           [Plain EXCEPT !.type = ""] }

\* the legacy visitor F1 and a new visitor F2, seen from a remote and from a
\* local address, and a body without its type
LegacyBeacons ==
    { Plain, [Plain EXCEPT !.fingerprint = "F2"],
      [Plain EXCEPT !.fingerprint = "F2", !.ip = "127.0.0.1"],
      [Plain EXCEPT !.type = ""] }

\* the writes that fail in one flush: none, any single one, or all four
FailureSets == {{}, FileSet} \cup {{f} : f \in FileSet}

\* one visitor's pageviews, sent from the server's own host
SaveBeacons == { [Plain EXCEPT !.ip = "127.0.0.1"] }

\* two visitors, one of them first seen from the server's own host
StreamBeacons ==
    { Plain, [Plain EXCEPT !.fingerprint = "F2", !.ip = "127.0.0.1"],
      [Plain EXCEPT !.siteId = ""], [Plain EXCEPT !.fingerprint = ""],
      [Plain EXCEPT !.type = ""] }

\* one visitor seen from a remote address on a desktop browser, then from
\* another address, with another User-Agent and with another device payload,
\* and a body without its type
DeviceBeacons ==
    { Plain,
      [Plain EXCEPT !.ip = "127.0.0.1"],
      [Plain EXCEPT !.ua = {"Firefox/", "Linux"}],
      [Plain EXCEPT !.ip = "127.0.0.1", !.ua = {"Safari/", "iPhone"},
                    !.data.deviceType = "mobile"],
      [Plain EXCEPT !.type = ""] }

\* one visitor on two sites in two sessions, arriving with and without a
\* tracked link's token, and a body without its type
StoreBeacons ==
    { Plain,
      [Plain EXCEPT !.ip = "127.0.0.1", !.siteId = "S2", !.sessionId = "s2",
                    !.type = "click"],
      [Plain EXCEPT !.ip = "127.0.0.1", !.data.trackingId = "tl1"],
      [Plain EXCEPT !.type = ""] }

\* pageviews and a click of two visitors, stamped by the server, by a client
\* whose clock is 40 days behind and by a client whose timestamp is not a
\* date, and a body without its type
DashboardBeacons ==
    { [Plain EXCEPT !.ip = "127.0.0.1"],
      [Plain EXCEPT !.ip = "127.0.0.1", !.timestamp = 0 - 40 * Day],
      [Plain EXCEPT !.ip = "127.0.0.1", !.timestamp = InvalidDate],
      [Plain EXCEPT !.fingerprint = "F2", !.type = "click"],
      [Plain EXCEPT !.type = ""] }

Periods == {"today", "7d", "30d", "all"}

\* two visitors on two sites and two pages, with the server's time, with the
\* timestamp of a client whose clock is 40 days behind and with one that is
\* 200 hours ahead, and a body without its type
SessionBeacons ==
    { [Plain EXCEPT !.ip = "127.0.0.1"],
      [Plain EXCEPT !.ip = "127.0.0.1", !.siteId = "S2", !.data.path = "/pricing",
                    !.timestamp = 0 - 40 * Day],
      [Plain EXCEPT !.fingerprint = "F2", !.timestamp = 2400],
      [Plain EXCEPT !.type = ""] }

Leads ==
    { [name |-> "Jane Doe", email |-> "jane@acme.com"],
      [name |-> "Bob Roe", email |-> "bob@corp.com"] }

Clients == {"c1"}

OfferUrl == Url("https", "example.com", "/offer", <<>>, "")

\* the destinations given to the link generator: the offer page, a bare
\* origin, a page address that already carries parameters (two of them
\* named _bvt) and a fragment, an address typed without its scheme, and none
Urls ==
    { OfferUrl,
      Url("https", "example.com", "", <<>>, ""),
      Url("https", "example.com", "/offer",
          << <<"utm", "x">>, <<"_bvt", "old">>, <<"ref", "y">>, <<"_bvt", "older">> >>,
          "top"),
      Url("", "", "example.com/offer", <<>>, ""),
      NoUrl }

----------------------------------------------------------------------------
(* The system *)

Init ==
    /\ now = 0
    /\ sites = EmptyMap
    /\ visitors = <<>>
    /\ eventBuffer = <<>>
    /\ trackedLinks = EmptyMap
    /\ activeSessions = EmptyMap
    /\ geoCache = EmptyMap
    /\ sseClients = {}
    /\ saveTimer = FALSE
    /\ inflight = <<>>
    /\ eventSeq = 0
    /\ seen = EmptyMap
    /\ pageviews = EmptyMap
    /\ lastIngest = EmptyMap
    /\ streams = EmptyMap
    /\ unhandled = 0
    /\ timeouts = NoTimeouts
    /\ disk = NoFiles
    /\ resp = Response("none", 0)

\* the state after loadViData when visitors.json holds a legacy record
InitLegacy ==
    /\ now = 0
    /\ sites = EmptyMap
    /\ visitors = <<LegacyVisitor>>
    /\ eventBuffer = <<>>
    /\ trackedLinks = EmptyMap
    /\ activeSessions = EmptyMap
    /\ geoCache = EmptyMap
    /\ sseClients = {}
    /\ saveTimer = FALSE
    /\ inflight = <<>>
    /\ eventSeq = 0
    /\ seen = EmptyMap
    /\ pageviews = EmptyMap
    /\ lastIngest = EmptyMap
    /\ streams = EmptyMap
    /\ unhandled = 0
    /\ timeouts = NoTimeouts
    /\ disk = [NoFiles EXCEPT !["visitors"] = << <<LegacyVisitor>> >>]
    /\ resp = Response("none", 0)

\* the handler's runs that never await fetch
TrackSync(B) ==
    \/ \E r \in B : TrackKnown(r)
    \/ \E r \in B : TrackNewImmediate(r)

\* the handler's runs, with the suspension in the geolocation lookup
Track(B) ==
    \/ \E r \in B : TrackMalformed(r)
    \/ TrackSync(B)
    \/ \E r \in B : TrackNewSuspend(r)
    \/ \E k \in 1..MaxIngest, ok \in BOOLEAN : TrackResume(k, ok)

\* the handler's runs over a store that holds legacy records
TrackLegacy(B) ==
    \/ Track(B)
    \/ \E r \in B : TrackKnownThrows(r)

\* the message-generation flow creates a link for each lead in turn
NextLead ==
    CHOOSE l \in Leads : (l.name = "Jane Doe") <=> (trackedLinks = EmptyMap)

Links ==
    \/ CreateLink("S1", OfferUrl, <<NextLead>>, "")
    \/ \E id \in {"tl1", "tl2", "tl9"} : ResolveLink(id)

\* link creation for every destination, with and without a lead, and redirects
LinksOf(U) ==
    \/ \E u \in U, lead \in {<<NextLead>>, <<>>}, mt \in {"", "linkedin"} :
          CreateLink("", u, lead, mt)
    \/ \E id \in {"tl1", "tl2", "tl9"} : ResolveLink(id)

Sites ==
    \/ \E name \in {"Acme", ""} : CreateSite(name, "acme.com")
    \/ \E id \in {"S1"} : DeleteSite(id)

Streams ==
    \/ \E c \in Clients : Subscribe(c)
    \/ \E c \in Clients : StreamClosed(c)

StreamsOf(C) ==
    \/ \E c \in C : Subscribe(c)
    \/ \E c \in C : StreamClosed(c)

Live == \E f \in {"", "S1", "S2"} : ListActive(f)

\* tracked-link traffic: link creation and redirects, the beacons of the
\* pages they lead to, site deletion and the live view
Next ==
    \/ Tick
    \/ TrackSync(LinkBeacons)
    \/ Links
    \/ DeleteSite("S1")
    \/ ListActive("")

Spec == Init /\ [][Next]_vars

\* ingestion under every variation of the beacon, with site management and
\* the live view
NextIngest == Tick \/ Track(Beacons) \/ Sites \/ Live

SpecIngest == Init /\ [][NextIngest]_vars

\* two visitors on two sites and the live view
NextLive == Tick \/ Track(LiveBeacons) \/ Live

SpecLive == Init /\ [][NextLive]_vars

\* two subscribers and the broadcasts of two visitors' events
NextStream == Track(StreamBeacons) \/ StreamsOf({"c1", "c2"})

SpecStream == Init /\ [][NextStream]_vars

\* ingestion over a store loaded with a legacy visitor record
NextLegacy == Tick \/ TrackLegacy(LegacyBeacons) \/ Streams \/ Live

SpecLegacy == InitLegacy /\ [][NextLegacy]_vars

\* the same, where every geolocation fetch settles (with an answer or an
\* error) and the clock advances
FetchSettles == \E k \in 1..MaxIngest, ok \in BOOLEAN : TrackResume(k, ok)

SpecLegacyFair == SpecLegacy /\ WF_vars(FetchSettles) /\ WF_vars(Tick)

\* every mutation of the four persisted collections, and flushes in which
\* any of the four writes may fail
NextSave ==
    \/ Flush(FailureSets)
    \/ TrackSync(SaveBeacons)
    \/ Sites
    \/ CreateLink("S1", OfferUrl, <<NextLead>>, "")
    \/ \E id \in {"tl1", "tl9"} : ResolveLink(id)

SpecSave == Init /\ [][NextSave]_vars

\* the same, where the process keeps running and a pending timeout fires
SpecSaveFair == SpecSave /\ WF_vars(Flush(FailureSets))

\* the same with restarts of the process, which load what the flushes left
NextLoad == NextSave \/ Restart

SpecLoad == Init /\ [][NextLoad]_vars

\* one visitor whose address, browser and device change between calls
NextDevice == Tick \/ Track(DeviceBeacons) \/ Live

SpecDevice == Init /\ [][NextDevice]_vars

\* every operation on the stores: ingestion, link creation and resolution,
\* site creation and deletion, the live view
NextStores == Track(StoreBeacons) \/ Links \/ Sites \/ Live

SpecStores == Init /\ [][NextStores]_vars

\* the dashboard over the events of two visitors
NextDashboard ==
    \/ Tick
    \/ Track(DashboardBeacons)
    \/ \E f \in {"", "S1"}, period \in Periods : Dashboard(f, period)

SpecDashboard == Init /\ [][NextDashboard]_vars

\* the live view of two visitors whose clients stamp their events themselves
NextSessions == Tick \/ Track(SessionBeacons) \/ Live

SpecSessions == Init /\ [][NextSessions]_vars

\* the tracked-link registry alone: creation and redirects
NextLinks == Tick \/ LinksOf(Urls)

SpecLinks == Init /\ [][NextLinks]_vars

----------------------------------------------------------------------------
(* Properties *)

VisitorsOf(fp) == {i \in 1..Len(visitors) : visitors[i].fingerprintHash = fp}

IsDate(ts) == ts >= 0

\* C1: whatever ingestion calls share a fingerprint, suspended lookups
\* included, the store holds at most one visitor with that fingerprintHash
\* (exactly one once a call for it has completed).
C1_OneVisitorPerFingerprint ==
    \A i, j \in 1..Len(visitors) :
        visitors[i].fingerprintHash = visitors[j].fingerprintHash => i = j

\* C2: once no call for a fingerprint is suspended, every visitor with that
\* fingerprint has totalSessions equal to the number of distinct session ids
\* the completed calls for the fingerprint carried.
C2_TotalSessionsCountsDistinct ==
    \A i \in 1..Len(visitors) :
        LET fp == visitors[i].fingerprintHash
        IN (\A k \in 1..Len(inflight) : inflight[k].fingerprint # fp)
           => visitors[i].totalSessions = Cardinality(seen[fp])

\* C2, where the fingerprint has one visitor: the count is right
C2_CountRightWithoutDuplicate ==
    \A i \in 1..Len(visitors) :
        Cardinality(VisitorsOf(visitors[i].fingerprintHash)) = 1
        => visitors[i].totalSessions = Cardinality(seen[visitors[i].fingerprintHash])

\* C3: no step moves a visitor's lastSeen from one date to an earlier date.
C3_LastSeenMonotonic ==
    [][ \A i \in 1..Len(visitors) :
          IsDate(visitors[i].lastSeen) /\ IsDate(visitors'[i].lastSeen)
          => visitors'[i].lastSeen >= visitors[i].lastSeen ]_vars

\* C4: no step (ingestion with or without a token, link creation or
\* resolution, site deletion, live read, clock) takes a visitor's identified
\* flag from true to false.
C4_IdentifiedNeverReverts ==
    [][ \A i \in 1..Len(visitors) :
          visitors[i].identified => visitors'[i].identified ]_vars

\* C4 witness: an identified visitor whose latest event carried no token
C4_Witness ==
    /\ eventBuffer # <<>>
    /\ LET e == eventBuffer[Len(eventBuffer)]
       IN /\ e.data.trackingId = ""
          /\ visitors[e.visitorId].identified
          /\ visitors[e.visitorId].totalPageviews >= 2

\* C5: no step changes an identity record that is set.
C5_IdentityNeverOverwritten ==
    [][ \A i \in 1..Len(visitors) :
          visitors[i].identity # <<>> => visitors'[i].identity = visitors[i].identity ]_vars

\* C6: every stored engagement score is an integer from 0 to 100.
C6_ScoreInRange ==
    \A i \in 1..Len(visitors) : visitors[i].engagementScore \in 0..100

\* C6, for visitors whose lastSeen is a date: the score is still not confined
\* to 0..100 (a negative scrollDepth average takes it below 0)
C6_ScoreInRangeForDates ==
    \A i \in 1..Len(visitors) :
        IsDate(visitors[i].lastSeen) => visitors[i].engagementScore \in 0..100

C8_ResolveCountsOnce ==
    [][ \A id \in DOMAIN trackedLinks :
          ResolveLink(id)
          => /\ DOMAIN trackedLinks' = DOMAIN trackedLinks
             /\ trackedLinks'[id].clicks = trackedLinks[id].clicks + 1
             /\ trackedLinks'[id].lastClicked = <<now>>
             /\ \A o \in DOMAIN trackedLinks \ {id} :
                   trackedLinks'[o] = trackedLinks[o] ]_vars

\* C8 witness: a redirect was just answered for a link that had been clicked
\* before, at a later time, with a second link in the registry
C8_Witness ==
    /\ resp.op = "redirect" /\ resp.status = 302
    /\ Cardinality(DOMAIN trackedLinks) = 2
    /\ \E id \in DOMAIN trackedLinks :
          /\ trackedLinks[id].clicks = 2
          /\ trackedLinks[id].lastClicked = <<now>>
          /\ now > 0

\* C9: resolving a token that is not in the registry answers 404 and changes
\* nothing: not the registry, the visitors, the event buffer, the live
\* sessions or the save timer.
C9_UnknownLinkNoEffect ==
    [][ \A id \in {"tl1", "tl2", "tl9"} :
          id \notin DOMAIN trackedLinks /\ ResolveLink(id)
          => /\ resp' = Response("redirect", 404)
             /\ UNCHANGED <<sites, visitors, eventBuffer, trackedLinks,
                            activeSessions, geoCache, sseClients, saveTimer,
                            timeouts, inflight, eventSeq>> ]_vars

\* C9 witness: a 404 was just answered while the registry, the store and the
\* live sessions were populated and no save was pending
C9_Witness ==
    /\ resp = Response("redirect", 404)
    /\ DOMAIN trackedLinks # {}
    /\ visitors # <<>>
    /\ DOMAIN activeSessions # {}
    /\ ~saveTimer

\* C10: no entry of a live listing is older than the 5-minute window at the
\* time of the listing, whatever the site filter.
C10_NoExpiredInListing ==
    resp.op = "live" => \A e \in resp.active : e.activeFor <= FiveMinutes

\* C10 witness: a listing was just answered that left out a visitor whose
\* entry had expired, and kept another
C10_Witness ==
    /\ resp.op = "live"
    /\ resp.active # {}
    /\ \E i \in 1..Len(visitors) :
          /\ i \notin DOMAIN activeSessions
          /\ \A e \in resp.active : e.visitorId # i

\* C11: once no call for a fingerprint is suspended, every visitor with that
\* fingerprint has totalPageviews equal to the number of completed calls for
\* the fingerprint whose type was pageview (exit and click calls add nothing).
C11_PageviewsCounted ==
    \A i \in 1..Len(visitors) :
        LET fp == visitors[i].fingerprintHash
        IN (\A k \in 1..Len(inflight) : inflight[k].fingerprint # fp)
           => visitors[i].totalPageviews = pageviews[fp]

\* C11, where the fingerprint has one visitor: the count is right
C11_CountRightWithoutDuplicate ==
    \A i \in 1..Len(visitors) :
        Cardinality(VisitorsOf(visitors[i].fingerprintHash)) = 1
        => visitors[i].totalPageviews = pageviews[visitors[i].fingerprintHash]

\* C12: an ingestion whose payload carries the token of a registered link
\* with lead info leaves its visitor identified, with identity = the link's
\* lead plus identifiedAt = the processing time and source = the link's
\* messageType, and adds exactly 1 to that link's clicks (no other link
\* changes); an ingestion with no token or an unknown one changes no link and
\* no visitor's identified flag or identity.
C12_TokenIdentifies ==
    [][ \A r \in LinkBeacons :
          TrackKnown(r) \/ TrackNewImmediate(r)
          => LET tok   == r.data.trackingId
                 found == FindVisitor(visitors, r.fingerprint)
                 i     == IF found # 0 THEN found ELSE Len(visitors) + 1
             IN IF tok \in DOMAIN trackedLinks /\ trackedLinks[tok].leadInfo # <<>>
                THEN /\ visitors'[i].identified
                     /\ visitors'[i].identity =
                           << [ name         |-> trackedLinks[tok].leadInfo[1].name,
                                email        |-> trackedLinks[tok].leadInfo[1].email,
                                identifiedAt |-> now,
                                source       |-> trackedLinks[tok].messageType ] >>
                     /\ trackedLinks'[tok].clicks = trackedLinks[tok].clicks + 1
                     /\ \A o \in DOMAIN trackedLinks \ {tok} :
                           trackedLinks'[o] = trackedLinks[o]
                ELSE /\ trackedLinks' = trackedLinks
                     /\ \A k \in 1..Len(visitors) :
                           /\ visitors'[k].identified = visitors[k].identified
                           /\ visitors'[k].identity = visitors[k].identity
                     /\ found = 0 => /\ ~visitors'[i].identified
                                     /\ visitors'[i].identity = <<>> ]_vars

\* C12 witness: the latest event carried the token of a registered link; its
\* visitor is identified from that link, which counts one click
C12_Witness ==
    /\ eventBuffer # <<>>
    /\ LET e == eventBuffer[Len(eventBuffer)]
       IN /\ e.data.trackingId \in DOMAIN trackedLinks
          /\ visitors[e.visitorId].identified
          /\ visitors[e.visitorId].identity[1].name
                = trackedLinks[e.data.trackingId].leadInfo[1].name
          /\ trackedLinks[e.data.trackingId].clicks = 1
          /\ trackedLinks[e.data.trackingId].lastClicked = <<now>>

\* C12 witness, unknown token: the latest event carried a token that is not
\* in the registry, links exist and its visitor is not identified
C12_WitnessUnknown ==
    /\ eventBuffer # <<>>
    /\ DOMAIN trackedLinks # {}
    /\ LET e == eventBuffer[Len(eventBuffer)]
       IN /\ e.data.trackingId = "tl9"
          /\ ~visitors[e.visitorId].identified

C13_WitnessOffer ==
    /\ resp.op = "redirect"
    /\ resp.location = Url("https", "example.com", "/offer", << <<"_bvt", "tl1">> >>, "")

\* C14: the redirect endpoint answers 302 or 404 only.
C14_RedirectOrNotFound ==
    resp.op = "redirect" => resp.status \in {302, 404}

\* C15: a /api/track call whose body lacks siteId, fingerprint or type is
\* answered 204 and changes nothing else: no visitor, event, link, live
\* session, subscriber or stream, suspended call or save timer.
C15_MalformedIsNoOp ==
    [][ \A r \in StreamBeacons :
          /\ r.siteId = "" \/ r.fingerprint = "" \/ r.type = ""
          /\ \/ TrackMalformed(r) \/ TrackKnown(r)
             \/ TrackNewImmediate(r) \/ TrackNewSuspend(r)
          => /\ resp' = Response("track", 204)
             /\ UNCHANGED <<sites, visitors, eventBuffer, trackedLinks,
                            activeSessions, geoCache, sseClients, streams,
                            saveTimer, timeouts, inflight, eventSeq>> ]_vars

\* C15 witness: a call was just answered with a subscriber listening, and
\* left no trace: no visitor, no event, no suspended call, no save armed,
\* nothing written to the subscriber
C15_Witness ==
    /\ resp = Response("track", 204)
    /\ inflight = <<>>
    /\ eventSeq = 0
    /\ visitors = <<>>
    /\ ~saveTimer
    /\ \E c \in sseClients : streams[c] = <<"connected">>

\* C19: in the broadcast of a completed ingestion every subscriber is either
\* written the event exactly once and stays registered, or is removed and
\* not written (no retry); nobody else's stream changes, and the ingestion
\* still appends its event and leaves the save timer armed.
C19_BroadcastIsolatesFailures ==
    [][ eventSeq' = eventSeq + 1
        => /\ sseClients' \subseteq sseClients
           /\ DOMAIN streams' = DOMAIN streams
           /\ \A c \in sseClients' : streams'[c] = Append(streams[c], eventSeq')
           /\ \A c \in DOMAIN streams \ sseClients' : streams'[c] = streams[c]
           /\ eventBuffer'[Len(eventBuffer')].eventId = eventSeq'
           /\ saveTimer' ]_vars

\* C19 witness: of two subscribers one was written the first event and is
\* registered, the other was not written and is gone; the event is stored
C19_Witness ==
    /\ eventSeq = 1
    /\ saveTimer
    /\ \E c, d \in DOMAIN streams :
          /\ c \in sseClients /\ streams[c] = <<"connected", 1>>
          /\ d \notin sseClients /\ streams[d] = <<"connected">>

\* C16: every /api/track call is answered 204 in the step it arrives in,
\* whatever becomes of it (dropped as malformed, completed, failed with a
\* TypeError, or suspended in the geolocation lookup with every store still
\* untouched), and the resumption of a suspended call sends nothing more.
C16_AckFirstAndUnconditional ==
    [][ /\ \A r \in LegacyBeacons :
             \/ TrackMalformed(r) \/ TrackKnown(r) \/ TrackKnownThrows(r)
             \/ TrackNewImmediate(r) \/ TrackNewSuspend(r)
             => resp' = Response("track", 204)
        /\ \A r \in LegacyBeacons :
             TrackNewSuspend(r)
             => UNCHANGED <<sites, visitors, eventBuffer, trackedLinks,
                            activeSessions, geoCache, sseClients, streams,
                            saveTimer, timeouts, eventSeq>>
        /\ \A k \in 1..Len(inflight), ok \in BOOLEAN :
             TrackResume(k, ok) => resp' = resp ]_vars

\* C16 witness: a suspended call was acknowledged before any store changed
C16_Witness ==
    /\ resp = Response("track", 204)
    /\ inflight # <<>>
    /\ eventSeq = 0
    /\ unhandled = 0
    /\ visitors = <<LegacyVisitor>>

\* C16 witness, failed processing: a call that threw was acknowledged
C16_WitnessThrown ==
    /\ resp = Response("track", 204)
    /\ unhandled = 1
    /\ eventSeq = 0
    /\ inflight = <<>>

\* C17: no /api/track handler promise ever rejects.
C17_NoErrorEscapes == unhandled = 0

\* the /api/track calls that passed the required-field check so far:
\* completed, suspended in the geolocation lookup, or failed
Accepted == eventSeq + Len(inflight) + unhandled

\* C18: every call that passes the required-field check eventually
\* completes: its event is appended and the save timer was armed.
C18_AcceptedCallsComplete ==
    \A n \in 1..MaxIngest :
        (Accepted >= n) ~> (eventSeq >= n /\ saveTimer)

\* C18, for the calls that are suspended in the geolocation lookup: where the
\* fetch settles, with an answer or an error, they complete
C18_SuspendedCallsComplete ==
    \A n \in 1..MaxIngest :
        (eventSeq + Len(inflight) >= n) ~> (eventSeq >= n /\ saveTimer)

\* C20: a flush in which the writes of any set of files fail changes no
\* in-memory collection, writes every other file with the collection as it
\* stands, and clears the timer; the first mutation after it arms the timer
\* again.
C20_FlushSurvivesWriteFailures ==
    [][ /\ saveTimer /\ ~saveTimer'
           => \A failed \in FailureSets : \A torn \in {{}, failed} :
                FlushWith(failed, torn)
                => /\ UNCHANGED <<sites, visitors, eventBuffer, trackedLinks,
                                  activeSessions, geoCache, sseClients>>
                   /\ \A f \in FileSet \ failed :
                         disk'[f] = << FileContents(sites, visitors, eventBuffer,
                                                    trackedLinks)[f] >>
        /\ ~saveTimer /\ <<sites, visitors, eventBuffer, trackedLinks>>'
                           # <<sites, visitors, eventBuffer, trackedLinks>>
           => saveTimer' ]_vars

\* C20 witness: after a flush the visitors file is still missing while the
\* events and links files hold the collections in memory, which are not
\* empty, and the timer is clear
C20_Witness ==
    /\ ~saveTimer
    /\ visitors # <<>>
    /\ disk["visitors"] = <<>>
    /\ disk["events"] = <<eventBuffer>>
    /\ DOMAIN trackedLinks # {}
    /\ disk["links"] = <<trackedLinks>>

\* C20 witness, re-arming: a save is armed again after a flush that failed
\* for the visitors file
C20_WitnessRearmed ==
    /\ saveTimer
    /\ visitors # <<>>
    /\ disk["visitors"] = <<>>
    /\ disk["events"] # <<>>

C22_AtMostOneFlushPending ==
    [][ /\ Len(timeouts'.pending) <= 1
        /\ saveTimer' <=> (timeouts'.pending # <<>>)
        /\ <<sites, visitors, eventBuffer, trackedLinks>>'
             # <<sites, visitors, eventBuffer, trackedLinks>>
           => IF saveTimer
              THEN timeouts' = timeouts
              ELSE /\ Len(timeouts'.pending) = 1
                   /\ timeouts'.last # timeouts.last
                   /\ timeouts'.pending = <<timeouts'.last>> ]_vars

\* a second timeout is pending, set after the first one fired, and the
\* collections have changed since it was set
C22_Witness ==
    /\ timeouts = [pending |-> <<2>>, last |-> 2]
    /\ saveTimer
    /\ DOMAIN trackedLinks # {}
    /\ disk["links"] # <<>>
    /\ DOMAIN disk["links"][1] # {}
    /\ disk["links"][1] # trackedLinks

\* C23: a step that changes a persisted collection leaves a flush pending, a
\* pending flush eventually fires, and the flush that fires writes the four
\* collections as they are at that moment (a write that fails leaves the old
\* file or a truncated one).
C23_MutationsAreFlushed ==
    /\ [][ /\ <<sites, visitors, eventBuffer, trackedLinks>>'
                # <<sites, visitors, eventBuffer, trackedLinks>>
              => saveTimer'
           /\ saveTimer /\ ~saveTimer'
              => \E failed \in FailureSets : \E torn \in {{}, failed} :
                    disk' = WriteFiles(disk,
                                FileContents(sites, visitors, eventBuffer,
                                             trackedLinks),
                                failed, torn) ]_vars
    /\ (saveTimer ~> ~saveTimer)

\* one flush has written a site, a visitor, an event and a clicked link that
\* were all created while the same timeout was pending
C23_Witness ==
    /\ ~saveTimer
    /\ timeouts = [pending |-> <<>>, last |-> 1]
    /\ DOMAIN sites # {} /\ disk["sites"] = <<sites>>
    /\ visitors # <<>> /\ disk["visitors"] = <<JsonVisitors(visitors)>>
    /\ eventBuffer # <<>> /\ disk["events"] = <<LastEvents(eventBuffer)>>
    /\ \E id \in DOMAIN trackedLinks : trackedLinks[id].clicks > 0
    /\ disk["links"] = <<trackedLinks>>

\* C24: a call of the ingestion endpoint whose fingerprint is in the store
\* when it arrives does not wait for the geolocation lookup (no call is
\* suspended, the geolocation cache is not touched) and does all its work in
\* that one step: the visitor is updated, the event appended, the live
\* session set and the save scheduled; or, on a record without a sessions
\* array, it ends there with a rejected promise.
C24_KnownIngestionIsAtomic ==
    [][ \A r \in LegacyBeacons :
          LET i == FindVisitor(visitors, r.fingerprint)
          IN /\ i # 0
             /\ ~Malformed(r)
             /\ \/ TrackKnown(r)
                \/ TrackKnownThrows(r)
                \/ TrackNewImmediate(r)
                \/ TrackNewSuspend(r)
             => /\ inflight' = inflight
                /\ geoCache' = geoCache
                /\ Len(visitors') = Len(visitors)
                /\ visitors'[i].lastSeen = EventTime(r, now)
                /\ \/ /\ eventSeq' = eventSeq + 1
                      /\ eventBuffer' # <<>>
                      /\ eventBuffer'[Len(eventBuffer')].visitorId = i
                      /\ i \in DOMAIN activeSessions'
                      /\ activeSessions'[i].timestamp = now
                      /\ visitors'[i].engagementScore
                            = ComputeEngagement(visitors'[i], eventBuffer, now)
                      /\ saveTimer'
                   \/ /\ ~HasSessions(visitors[i])
                      /\ unhandled' = unhandled + 1 ]_vars

\* the second visitor was created by one call and updated by the next
C24_Witness ==
    /\ eventSeq = 2
    /\ Len(visitors) = 2
    /\ inflight = <<>>
    /\ unhandled = 0
    /\ Cardinality(seen["F2"]) = 1

\* C25: no step changes the geo or the device record of a visitor that is
\* in the store, whatever the address, the User-Agent and the device payload
\* of the calls that follow its creation.
C25_GeoAndDeviceWrittenOnce ==
    [][ \A i \in 1..Len(visitors) :
          /\ i <= Len(visitors')
          /\ visitors'[i].geo = visitors[i].geo
          /\ visitors'[i].device = visitors[i].device ]_vars

\* the visitor created from a remote address on desktop Chrome has since
\* been seen from the local host on a phone
C25_Witness ==
    /\ Len(visitors) = 1
    /\ visitors[1].geo.ip = "8.8.8.8"
    /\ visitors[1].device = [browser |-> "Chrome", os |-> "Windows 10/11",
                             deviceType |-> "desktop"]
    /\ eventBuffer # <<>>
    /\ eventBuffer[Len(eventBuffer)].visitorId = 1
    /\ eventBuffer[Len(eventBuffer)].data.deviceType = "mobile"

IsPrefix(a, b) == Len(a) <= Len(b) /\ SubSeq(b, 1, Len(a)) = a

\* C26: in every step every stored visitor stays in the store, its siteIds
\* and sessions keep what they held and at most gain entries at the end, its
\* totalSessions and totalPageviews do not decrease, and its visitorId and
\* fingerprintHash stay the same; deleting a site changes no visitor.
C26_VisitorHistoryOnlyGrows ==
    [][ \A i \in 1..Len(visitors) :
          /\ i <= Len(visitors')
          /\ IsPrefix(visitors[i].siteIds, visitors'[i].siteIds)
          /\ IsPrefix(visitors[i].sessions, visitors'[i].sessions)
          /\ visitors'[i].totalSessions >= visitors[i].totalSessions
          /\ visitors'[i].totalPageviews >= visitors[i].totalPageviews
          /\ visitors'[i].visitorId = visitors[i].visitorId
          /\ visitors'[i].fingerprintHash = visitors[i].fingerprintHash ]_vars

\* a visitor seen on two sites in two sessions, after the deletion of the
\* first of the sites
C26_Witness ==
    /\ Len(visitors) = 1
    /\ visitors[1].siteIds = <<"S1", "S2">>
    /\ visitors[1].sessions = <<"s1", "s2">>
    /\ visitors[1].totalSessions = 2
    /\ visitors[1].totalPageviews = 1
    /\ resp = Response("delete-site", 200)
    /\ "S1" \notin DOMAIN sites

\* C27: in every step every tracked link of the registry stays in it, keeps
\* its linkId, siteId, originalUrl, leadInfo and messageType (the link differs
\* from what it was in clicks and lastClicked at most), and its clicks do
\* not decrease.
C27_LinkChangesOnlyInClicks ==
    [][ \A id \in DOMAIN trackedLinks :
          /\ id \in DOMAIN trackedLinks'
          /\ [trackedLinks'[id] EXCEPT !.clicks = trackedLinks[id].clicks,
                                       !.lastClicked = trackedLinks[id].lastClicked]
                = trackedLinks[id]
          /\ trackedLinks'[id].clicks >= trackedLinks[id].clicks ]_vars

\* the first link was followed once by redirect and once by a page's token,
\* and a second link was created after it
C27_Witness ==
    /\ DOMAIN trackedLinks = {"tl1", "tl2"}
    /\ trackedLinks["tl1"].clicks = 2
    /\ trackedLinks["tl1"].leadInfo # <<>>
    /\ trackedLinks["tl2"].clicks = 0
    /\ visitors # <<>>
    /\ visitors[1].identified
    /\ resp.op = "redirect" /\ resp.status = 302

C29_ReadEvictsAllExpired ==
    [][ \A f \in {"", "S1", "S2"} :
          ListActive(f)
          => /\ \A k \in DOMAIN activeSessions' :
                   ~Expired(activeSessions'[k], now)
             /\ \A k \in DOMAIN activeSessions :
                   ~Expired(activeSessions[k], now)
                   => /\ k \in DOMAIN activeSessions'
                      /\ activeSessions'[k] = activeSessions[k] ]_vars

\* a listing filtered on the second site has answered with no visitor: the
\* first visitor's entry, on the first site, has expired and is gone, and
\* the second visitor's entry, on the first site too, is kept
C29_Witness ==
    /\ resp.op = "live"
    /\ resp.active = {}
    /\ Len(visitors) = 2
    /\ DOMAIN activeSessions = {2}
    /\ activeSessions[2].siteId = "S1"
    /\ ~Expired(activeSessions[2], now)
    /\ eventBuffer[Len(eventBuffer)].siteId = "S1"
    /\ visitors[1].siteIds = <<"S1">>
    /\ visitors[1].lastSeen < now - FiveMinutes

\* C30: in every state and for every site filter, the dashboard's activeNow
\* figure computed now equals the number of visitors a live listing made now
\* would return.
C30_DashboardCountMatchesListing ==
    \A f \in {"", "S1", "S2"} :
        DashboardActiveNow(activeSessions, f, now)
          = Cardinality(ActiveVisitors(activeSessions, visitors, f, now))

\* the tracker holds an expired entry that no listing has removed yet and an
\* entry exactly five minutes old, on different sites
C30_Witness ==
    /\ \E k \in DOMAIN activeSessions : Expired(activeSessions[k], now)
    /\ \E k \in DOMAIN activeSessions :
          /\ activeSessions[k].timestamp = now - FiveMinutes
          /\ activeSessions[k].siteId = "S2"
    /\ DashboardActiveNow(activeSessions, "", now) = 1
    /\ DashboardActiveNow(activeSessions, "S1", now) = 0

\* C31: a step that completes an ingestion leaves the visitor of the new
\* event with the score that computeEngagement gives for the visitor and the
\* event log as they are after the step, the new event included.
C31_ScoreCountsIngestedEvent ==
    [][ eventSeq' = eventSeq + 1
        => LET i == eventBuffer'[Len(eventBuffer')].visitorId
           IN visitors'[i].engagementScore
                = ComputeEngagement(visitors'[i], eventBuffer', now) ]_vars

\* C32: for every site filter and every period, each entry of the dashboard's
\* daily series is for one of the last 30 calendar days, and its count is the
\* number of distinct visitors with an event on that date among the events
\* of the site and the period.
C32_DailySeriesOfLast30Days ==
    [][ \A f \in {"", "S1"}, period \in Periods :
          Dashboard(f, period)
          => LET series == resp'.visitorsByDay
                 evs    == DashboardEvents(eventBuffer, f, Cutoff(period, now))
             IN \A k \in 1..Len(series) :
                  /\ series[k].date # InvalidDate
                  /\ series[k].date \in (now \div Day - 29)..(now \div Day)
                  /\ series[k].count
                       = Cardinality({ evs[j].visitorId :
                            j \in { i \in 1..Len(evs) :
                                      DateOf(evs[i].timestamp) = series[k].date } })
      ]_vars

\* C33: deleting a site takes that site's record out of the sites map and
\* leaves the visitors, the event log, the tracked links and the live
\* sessions as they were; a well-formed ingestion call for a site that is
\* not in the sites map completes like any other and appends its event.
C33_SiteDeletionIsLocal ==
    [][ /\ DeleteSite("S1")
           => /\ sites' = MapDelete(sites, {"S1"})
              /\ UNCHANGED <<visitors, eventBuffer, trackedLinks, activeSessions>>
        /\ \A r \in SaveBeacons :
              /\ r.siteId \notin DOMAIN sites
              /\ TrackKnown(r) \/ TrackNewImmediate(r)
              => /\ eventSeq' = eventSeq + 1
                 /\ eventBuffer'[Len(eventBuffer')].siteId = r.siteId
                 /\ resp' = Response("track", 204) ]_vars

\* the site was in the map when the first event was flushed and is deleted
\* now; the visitor, its live session and the newest event still name it
C33_Witness ==
    /\ "S1" \notin DOMAIN sites
    /\ disk["sites"] # <<>> /\ "S1" \in DOMAIN disk["sites"][1]
    /\ disk["events"] # <<>> /\ disk["events"][1] # <<>>
    /\ eventSeq = 2
    /\ eventBuffer[Len(eventBuffer)].siteId = "S1"
    /\ eventBuffer[Len(eventBuffer)].eventId = 2
    /\ visitors[1].siteIds = <<"S1">>
    /\ activeSessions[1].siteId = "S1"
    /\ DOMAIN trackedLinks # {}

\* C34: the step that registers a subscriber leaves its stream holding the
\* connected message alone; while it stays registered its stream gains the
\* event of every ingestion that completes, once, and nothing else; a step
\* after which it is not registered writes nothing to it; and the closure
\* of its connection takes it out of the subscriber map.
C34_SubscriberStream ==
    [][ \A c \in {"c1", "c2"} :
          /\ c \notin sseClients /\ c \in sseClients'
             => streams'[c] = <<"connected">>
          /\ c \in sseClients /\ c \in sseClients'
             => streams'[c] = IF eventSeq' = eventSeq + 1
                              THEN Append(streams[c], eventSeq')
                              ELSE streams[c]
          /\ c \in DOMAIN streams /\ c \notin sseClients'
             => streams'[c] = streams[c]
          /\ StreamClosed(c) => c \notin sseClients' ]_vars

\* one subscriber was written the first event and then removed, the other
\* subscribed after the first event and was written the second alone
C34_Witness ==
    /\ eventSeq = 2
    /\ "c1" \in DOMAIN streams /\ "c2" \in DOMAIN streams
    /\ "c1" \notin sseClients /\ streams["c1"] = <<"connected", 1>>
    /\ "c2" \in sseClients /\ streams["c2"] = <<"connected", 2>>

\* every event of the log names a visitor of the store
EventsKnown ==
    \A k \in 1..Len(eventBuffer) :
        /\ eventBuffer[k].visitorId \in 1..Len(visitors)
        /\ visitors[eventBuffer[k].visitorId].visitorId = eventBuffer[k].visitorId

\* every key of the live-session tracker names a visitor of the store
LiveKnown ==
    \A id \in DOMAIN activeSessions :
        id \in 1..Len(visitors) /\ visitors[id].visitorId = id

\* C35: in every state every event's visitorId and every live-session key is
\* the visitorId of a visitor in the store.
C35_ReferencesResolve == EventsKnown /\ LiveKnown

\* C35, as it holds: every live-session key names a stored visitor after
\* every step, and no step of the running process (a restart is not one)
\* leaves an event without its visitor when every event had one before.
C35_OperationsKeepReferences ==
    [][ /\ LiveKnown'
        /\ EventsKnown /\ ~Restart => EventsKnown' ]_vars

\* a visitor, its two events (one evicted) and its live session, flushed
\* and still consistent in memory
C35_Witness ==
    /\ eventSeq = 2
    /\ eventBuffer # <<>>
    /\ DOMAIN activeSessions # {}
    /\ EventsKnown /\ LiveKnown
    /\ disk["visitors"] # <<>> /\ disk["visitors"][1] # <<>>
    /\ disk["events"] # <<>> /\ disk["events"][1] # <<>>

\* C36: a link enters the registry with clicks 0, and every step adds to the
\* clicks of each registered link 1 if the step is a redirect resolution of
\* that link, 1 if it is a completed ingestion whose payload carries that
\* link's token, and nothing otherwise; so in every state the clicks of a
\* link are the resolutions plus the token-carrying ingestions since its
\* creation.
C36_ClicksCountBothPaths ==
    [][ /\ \A id \in DOMAIN trackedLinks' \ DOMAIN trackedLinks :
              trackedLinks'[id].clicks = 0
        /\ \A id \in DOMAIN trackedLinks :
              /\ id \in DOMAIN trackedLinks'
              /\ trackedLinks'[id].clicks - trackedLinks[id].clicks
                   = (IF ResolveLink(id) THEN 1 ELSE 0)
                     + (IF \E r \in LinkBeacons :
                              /\ r.data.trackingId = id
                              /\ TrackKnown(r) \/ TrackNewImmediate(r)
                        THEN 1 ELSE 0) ]_vars

\* one click-through of the first link and two events of the destination
\* page that report its token: the link counts 3
C36_Witness ==
    /\ "tl1" \in DOMAIN trackedLinks
    /\ trackedLinks["tl1"].clicks = 3
    /\ eventSeq = 2
    /\ Len(visitors) = 1
    /\ visitors[1].identified
    /\ visitors[1].totalPageviews = 2
    /\ eventBuffer[Len(eventBuffer)].data.trackingId = "tl1"

\* C37: after every step each live-session entry is the visitor's last
\* completed call: the server's time of that call, its page and its site;
\* and a live listing for a site filter names exactly the visitors whose last
\* completed call is not older than 5 minutes and was for that site (any
\* site when there is no filter), with that call's page, whatever timestamp
\* the events carried.
C37_ListingIsLastIngestion ==
    [][ /\ \A id \in DOMAIN activeSessions' :
              /\ id \in DOMAIN lastIngest'
              /\ activeSessions'[id] = lastIngest'[id]
        /\ \A f \in {"", "S1", "S2"} :
              ListActive(f)
              => { <<e.visitorId, e.currentPage>> : e \in resp'.active }
                   = { <<id, lastIngest[id].page>> :
                         id \in { k \in DOMAIN lastIngest :
                                    /\ lastIngest[k].timestamp >= now - FiveMinutes
                                    /\ f = "" \/ lastIngest[k].siteId = f } } ]_vars

\* a listing names the visitor on the page and the site of its last call,
\* made exactly five minutes before and stamped 40 days back by the client;
\* the visitor's earlier call was for the first site
C37_Witness ==
    /\ resp.op = "live"
    /\ Len(visitors) = 1
    /\ { <<e.visitorId, e.currentPage>> : e \in resp.active } = { <<1, "/pricing">> }
    /\ visitors[1].siteIds = <<"S1", "S2">>
    /\ visitors[1].lastSeen = 0 - 40 * Day
    /\ lastIngest[1].siteId = "S2"
    /\ lastIngest[1].timestamp = now - FiveMinutes
    /\ activeSessions = lastIngest

====
